---- MODULE Spec2Model ----
(***************************************************************************)
(* The remake / refine loop of src/app.py (a Streamlit script).            *)
(*                                                                         *)
(* State: the three st.session_state entries, the two widgets the script   *)
(* reads (API key text input, file uploader), the position of the running  *)
(* script (pc) and the script's locals.  One action per button handler     *)
(* step; a handler is split only where it waits for a model call, and no   *)
(* other action is enabled while a handler is in flight.                   *)
(***************************************************************************)
EXTENDS Integers, Sequences, FiniteSets

\* Bound: number of images the render model returns in one behaviour.
MaxRenders == 3

VARIABLES
    api_key,            \* sidebar text input: "" or a key
    uploaded_file,      \* file uploader: None or a source image
    generated_image,    \* st.session_state.generated_image
    current_prompt,     \* st.session_state.current_prompt
    refined_images,     \* st.session_state.refined_images: <<image, prompt, changes>>
    pc,                 \* position of the script between model calls
    action,             \* the button whose handler ran last in this run
    status,             \* label of st.status / st.error shown by this run
    image,              \* local: Image.open(uploaded_file)
    client,             \* local: the key the gateway client was built with
    example_structure,  \* local: schema template text or the fallback
    prompt_json,        \* local: return value of analyze_image
    current_gen_img,    \* local of the refine handler
    cur_prompt,         \* local `current_prompt` of the refine handler
    refinement_result,  \* local: return value of refine_prompt
    new_prompt,         \* local of the refine handler
    changes,            \* local of the refine handler
    rendered,           \* local: return value of generate_image_from_prompt
    calls,              \* requests issued to the model by this run, in order
    before,             \* the session state when the button was clicked
    nrender,            \* number of images returned by the render model
    example_file,       \* whether open("prompt_example.txt") found the file
    remade_from         \* the upload the stored generated_image was made for

vars == <<api_key, uploaded_file, generated_image, current_prompt,
          refined_images, pc, action, status, image, client,
          example_structure, prompt_json, current_gen_img, cur_prompt,
          refinement_result, new_prompt, changes, rendered, calls, before,
          nrender, example_file, remade_from>>

session == <<generated_image, current_prompt, refined_images>>
widgets == <<api_key, uploaded_file>>

-----------------------------------------------------------------------------
(* Values *)

\* Python's None, for descriptions, keys and uploads.
None == "None"

\* Python's None for an image (the render result without image data).
NoImage == [id |-> 0, from |-> None]

\* Source images the user can upload.
Sources == {"src1", "src2"}

\* Keys typed in the sidebar; "" is the absent credential.
ApiKeys == {"", "key"}

\* JSON values json.loads can return for the describe request: two
\* non-empty mappings, the empty mapping {}, a non-mapping value (a list)
\* and null.
Descriptions == {"D1", "D2"}
DescribeJson == Descriptions \cup {"EMPTY", "LIST", None}

\* Variant: the test is dropped.
TruthyJson_Always(v) == TRUE

\* Python truth value of a description-typed value.
TruthyJson(v) == v \notin {None, "EMPTY"}

\* Python truth value of an image-typed value (a PIL image is always true).
TruthyImage(img) == img # NoImage

\* Change lists the compare model returns.
ChangeLists == {<<>>, <<"fixed angle">>}

\* JSON values json.loads can return for the compare request.  An object is
\* given by which of its keys are present; `other` stands for any other key.
Obj(has_np, np, has_ch, ch, other) ==
    [t |-> "obj", has_np |-> has_np, np |-> np,
     has_ch |-> has_ch, ch |-> ch, other |-> other]
JsonList == [t |-> "list", has_np |-> FALSE, np |-> None,
             has_ch |-> FALSE, ch |-> <<>>, other |-> FALSE]
JsonNull == [t |-> "null", has_np |-> FALSE, np |-> None,
             has_ch |-> FALSE, ch |-> <<>>, other |-> FALSE]
CompareJson ==
    {Obj(TRUE, d, TRUE, c, FALSE) : d \in Descriptions, c \in ChangeLists}
    \cup {Obj(TRUE, d, FALSE, <<>>, FALSE) : d \in Descriptions}
    \cup {Obj(FALSE, None, TRUE, c, FALSE) : c \in ChangeLists}
    \cup {Obj(FALSE, None, FALSE, <<>>, o) : o \in BOOLEAN}
    \cup {JsonList, JsonNull}

\* Python truth value of refine_prompt's return value.
TruthyResult(r) ==
    \/ r.t = "list"
    \/ r.t = "obj" /\ (r.has_np \/ r.has_ch \/ r.other)

\* A response of the model to a describe or compare request: ok = FALSE is
\* a transport error or a body that is not JSON (an exception in the try).
Response(ok, json) == [ok |-> ok, json |-> json]

\* One request to the model, as logged in `calls`.
Call(op, key, text, src, img, desc, ref) ==
    [op |-> op, key |-> key, text |-> text, src |-> src,
     img |-> img, desc |-> desc, ref |-> ref]

-----------------------------------------------------------------------------
(* The three gateway wrappers *)

\* analyze_image: the parsed JSON, or None on any exception.
analyze_image(resp) == IF resp.ok THEN resp.json ELSE None

\* refine_prompt: the parsed JSON, or None on any exception.
refine_prompt(resp) == IF resp.ok THEN resp.json ELSE JsonNull

\* generate_image_from_prompt: a new image made from prompt, or None when
\* the response has no inline data or the request raised.
RenderOutcomes == {"image", "no_image", "error"}
generate_image_from_prompt(prompt, outcome) ==
    IF outcome = "image" THEN [id |-> nrender + 1, from |-> prompt]
    ELSE NoImage

\* Variant: the image the refine handler compared is passed as input_image.
DefaultInputImage_Previous == current_gen_img

\* The input_image parameter's default: no reference image.
DefaultInputImage == NoImage

-----------------------------------------------------------------------------
(* The Attempt history *)

\* The initial attempt held in generated_image / current_prompt (shown by
\* the Display Results block when generated_image is set), followed by the
\* refinements.
HistoryOf(gen, prompt, refined) ==
    IF TruthyImage(gen)
    THEN <<(<<gen, prompt, <<>>>>)>> \o refined
    ELSE refined

History == HistoryOf(generated_image, current_prompt, refined_images)

\* The history as it was when the button of this run was clicked.
BeforeHistory == HistoryOf(before[1], before[2], before[3])

Last(s) == s[Len(s)]

-----------------------------------------------------------------------------
Init ==
    /\ api_key \in ApiKeys
    /\ uploaded_file = None
    /\ generated_image = NoImage
    /\ current_prompt = None
    /\ refined_images = <<>>
    /\ pc = "idle"
    /\ action = "none"
    /\ status = ""
    /\ image = None
    /\ client = None
    /\ example_structure = None
    /\ prompt_json = None
    /\ current_gen_img = NoImage
    /\ cur_prompt = None
    /\ refinement_result = JsonNull
    /\ new_prompt = None
    /\ changes = <<>>
    /\ rendered = NoImage
    /\ calls = <<>>
    /\ before = <<NoImage, None, <<>>>>
    /\ nrender = 0
    /\ example_file = TRUE
    /\ remade_from = None

\* A rerun of the script starts with fresh locals and no status shown.
FreshRun(btn, file) ==
    /\ action' = btn
    /\ image' = file
    /\ prompt_json' = None
    /\ refinement_result' = JsonNull
    /\ new_prompt' = None
    /\ changes' = <<>>
    /\ rendered' = NoImage
    /\ before' = session

NoRefineLocals ==
    /\ current_gen_img' = NoImage
    /\ cur_prompt' = None

\* st.error("Please provide a Gemini API Key ...")
KeyMissingMessage == "Please provide a Gemini API Key"

\* Variant: the credential check always passes.
KeyMissing_Never(k) == FALSE

\* `not api_key`
KeyMissing(k) == k = ""

\* Variant: no substitute for a missing template.
ExampleStructure_NoFallback(present) ==
    IF present THEN "prompt_example.txt" ELSE None

\* The schema template read at remake time, or the generic instruction
\* substituted on FileNotFoundError.
ExampleStructure(present) ==
    IF present THEN "prompt_example.txt" ELSE "fallback"

\* Variant: the new description is not stored.
StoredPrompt_Stale(pj) == current_prompt

\* `st.session_state.current_prompt = prompt_json`
StoredPrompt(pj) == pj

\* Variant: the request is sent a second time.
RenderRequests_Twice(key, prompt, input_image) ==
    <<Call("render", key, None, None, NoImage, prompt, input_image),
      Call("render", key, None, None, NoImage, prompt, input_image)>>

\* The requests one generate_image_from_prompt call issues: one
\* generate_content request carrying the prompt text and, when given, the
\* input image.
RenderRequests(key, prompt, input_image) ==
    <<Call("render", key, None, None, NoImage, prompt, input_image)>>

\* Variant: a failed generation is tried again until it succeeds.
AfterFailedRender_Retry == pc

\* The handler ends after status.update(label="Generation Failed").
AfterFailedRender == "idle"

\* `if uploaded_file is not None`
HasUpload == uploaded_file # None

\* Variant: the results block is guarded by the stored prompt.
ResultsDisplayed_ByPrompt == TruthyJson(current_prompt)

\* `if st.session_state.generated_image` (Display Results; the Refine
\* button is rendered inside this block).
ResultsDisplayed == TruthyImage(generated_image)

\* Variant: the refinements survive a remake.
ResetRefinements_Kept == refined_images

\* `st.session_state.refined_images = []  # Reset refinements`
ResetRefinements == <<>>

\* Variant: the baseline image is the first refinement's, not the last's.
BaselineImage_First ==
    IF refined_images # <<>> THEN refined_images[1][1] ELSE generated_image

\* The image / prompt the refine handler compares against.
BaselineImage ==
    IF refined_images # <<>> THEN Last(refined_images)[1] ELSE generated_image
BaselinePrompt ==
    IF refined_images # <<>> THEN Last(refined_images)[2] ELSE current_prompt

\* refinement_result.get("new_prompt") and .get("changes", [])
GetNewPrompt(r) == IF r.has_np THEN r.np ELSE None
\* Variant: the change list is never read from the response.
GetChanges_Dropped(r) == <<>>
GetChanges(r) == IF r.has_ch THEN r.ch ELSE <<>>

\* Variants: the result is stored without the `if new_image` test; the new
\* attempt is put in front of the list.
StoreRefinement_Unguarded(img, np, ch) ==
    Append(refined_images, <<img, np, ch>>)
StoreRefinement_Front(img, np, ch) ==
    IF TruthyImage(img) THEN <<(<<img, np, ch>>)>> \o refined_images
    ELSE refined_images

\* `if new_image: st.session_state.refined_images.append((new_image,
\* new_prompt, changes))`
StoreRefinement(img, np, ch) ==
    IF TruthyImage(img) THEN Append(refined_images, <<img, np, ch>>)
    ELSE refined_images

\* The Remake button is rendered when a file is uploaded; the Refine button
\* when, in addition, the results are displayed.
RemakeAvailable == pc = "idle" /\ HasUpload
\* Variant: the Refine button is rendered outside the results block.
RefineAvailable_Unguarded == pc = "idle" /\ HasUpload
RefineAvailable == pc = "idle" /\ HasUpload /\ ResultsDisplayed

DescribeResponses ==
    {Response(TRUE, j) : j \in DescribeJson} \cup {Response(FALSE, None)}
CompareResponses ==
    {Response(TRUE, j) : j \in CompareJson} \cup {Response(FALSE, JsonNull)}

\* The images the render model can return now (the bound caps their number).
RenderChoices ==
    IF nrender < MaxRenders THEN RenderOutcomes ELSE RenderOutcomes \ {"image"}

-----------------------------------------------------------------------------
(* Widget interactions that only rerun the script *)

SetApiKey(k) ==
    /\ pc = "idle"
    /\ k # api_key
    /\ api_key' = k
    /\ FreshRun("none", uploaded_file) /\ NoRefineLocals
    /\ status' = ""
    /\ client' = None
    /\ example_structure' = None
    /\ calls' = <<>>
    /\ UNCHANGED <<uploaded_file, session, pc, nrender, example_file,
                   remade_from>>

Upload(f) ==
    /\ pc = "idle"
    /\ f # uploaded_file
    /\ uploaded_file' = f
    /\ FreshRun("none", f) /\ NoRefineLocals
    /\ status' = ""
    /\ client' = None
    /\ example_structure' = None
    /\ calls' = <<>>
    /\ UNCHANGED <<api_key, session, pc, nrender, example_file,
                   remade_from>>

-----------------------------------------------------------------------------
(* Remake Image *)

\* Click: credential check, client, schema template, describe request.
RemakeClick ==
    /\ RemakeAvailable
    /\ FreshRun("remake", uploaded_file) /\ NoRefineLocals
    /\ IF KeyMissing(api_key)
       THEN /\ status' = KeyMissingMessage
            /\ client' = None
            /\ example_structure' = None
            /\ calls' = <<>>
            /\ pc' = "idle"
            /\ UNCHANGED example_file
       ELSE /\ client' = api_key
            /\ \E present \in BOOLEAN :
                 /\ example_file' = present
                 /\ example_structure' = ExampleStructure(present)
                 /\ calls' = <<Call("describe", api_key,
                                    ExampleStructure(present), uploaded_file,
                                    NoImage, None, NoImage)>>
            /\ status' = "Analyzing image..."
            /\ pc' = "analyzing"
    /\ UNCHANGED <<widgets, session, nrender, remade_from>>

\* analyze_image returns; on a true value the prompt is stored and the
\* render request is issued.
DescribeReturns ==
    /\ pc = "analyzing"
    /\ \E resp \in DescribeResponses :
         /\ prompt_json' = analyze_image(resp)
         /\ IF TruthyJson(prompt_json')
            THEN /\ current_prompt' = StoredPrompt(prompt_json')
                 /\ calls' = calls \o RenderRequests(client, prompt_json',
                                                     DefaultInputImage)
                 /\ pc' = "generating"
                 /\ UNCHANGED status
            ELSE /\ status' = "Analysis Failed"
                 /\ pc' = "idle"
                 /\ UNCHANGED <<current_prompt, calls>>
    /\ UNCHANGED <<widgets, generated_image, refined_images, action, image,
                   client, example_structure, current_gen_img, cur_prompt,
                   refinement_result, new_prompt, changes, rendered, before,
                   nrender, example_file, remade_from>>

\* generate_image_from_prompt returns to the remake handler.
RenderReturns ==
    /\ pc = "generating"
    /\ \E outcome \in RenderChoices :
         /\ rendered' = generate_image_from_prompt(prompt_json, outcome)
         /\ IF TruthyImage(rendered')
            THEN /\ generated_image' = rendered'
                 /\ refined_images' = ResetRefinements
                 /\ remade_from' = image
                 /\ status' = "Remake Complete!"
                 /\ nrender' = nrender + 1
                 /\ pc' = "idle"
            ELSE /\ status' = "Generation Failed"
                 /\ pc' = AfterFailedRender
                 /\ UNCHANGED <<generated_image, refined_images, nrender,
                                remade_from>>
    /\ UNCHANGED <<widgets, current_prompt, action, image, client,
                   example_structure, prompt_json, current_gen_img,
                   cur_prompt, refinement_result, new_prompt, changes, calls,
                   before, example_file>>

-----------------------------------------------------------------------------
(* Refine Image *)

\* Click: credential check, client, baseline, compare request.
RefineClick ==
    /\ RefineAvailable
    /\ FreshRun("refine", uploaded_file)
    /\ example_structure' = None
    /\ IF KeyMissing(api_key)
       THEN /\ status' = KeyMissingMessage
            /\ client' = None
            /\ NoRefineLocals
            /\ calls' = <<>>
            /\ pc' = "idle"
       ELSE /\ client' = api_key
            /\ current_gen_img' = BaselineImage
            /\ cur_prompt' = BaselinePrompt
            /\ calls' = <<Call("compare", api_key, None, uploaded_file,
                               BaselineImage, BaselinePrompt, NoImage)>>
            /\ status' = "Refining image..."
            /\ pc' = "refining"
    /\ UNCHANGED <<widgets, session, nrender, example_file, remade_from>>

\* refine_prompt returns; on a true value the two fields are read and the
\* render request is issued.  A true value that is no mapping has no .get:
\* the AttributeError ends the run.
CompareReturns ==
    /\ pc = "refining"
    /\ \E resp \in CompareResponses :
         /\ refinement_result' = refine_prompt(resp)
         /\ IF TruthyResult(refinement_result')
            THEN IF refinement_result'.t = "obj"
                 THEN /\ new_prompt' = GetNewPrompt(refinement_result')
                      /\ changes' = GetChanges(refinement_result')
                      /\ calls' = calls \o RenderRequests(client, new_prompt',
                                                          DefaultInputImage)
                      /\ pc' = "regenerating"
                      /\ UNCHANGED status
                 ELSE /\ status' = "AttributeError"
                      /\ pc' = "idle"
                      /\ UNCHANGED <<new_prompt, changes, calls>>
            ELSE /\ status' = "Refinement Failed"
                 /\ pc' = "idle"
                 /\ UNCHANGED <<new_prompt, changes, calls>>
    /\ UNCHANGED <<widgets, session, action, image, client, example_structure,
                   prompt_json, current_gen_img, cur_prompt, rendered, before,
                   nrender, example_file, remade_from>>

\* generate_image_from_prompt returns to the refine handler.
RefineRenderReturns ==
    /\ pc = "regenerating"
    /\ \E outcome \in RenderChoices :
         /\ rendered' = generate_image_from_prompt(new_prompt, outcome)
         /\ refined_images' = StoreRefinement(rendered', new_prompt, changes)
         /\ IF TruthyImage(rendered')
            THEN /\ status' = "Refinement Complete!"
                 /\ nrender' = nrender + 1
                 /\ pc' = "idle"
            ELSE /\ status' = "Generation Failed"
                 /\ pc' = AfterFailedRender
                 /\ UNCHANGED nrender
    /\ UNCHANGED <<widgets, generated_image, current_prompt, action, image,
                   client, example_structure, prompt_json, current_gen_img,
                   cur_prompt, refinement_result, new_prompt, changes, calls,
                   before, example_file, remade_from>>

-----------------------------------------------------------------------------
Next ==
    \/ \E k \in ApiKeys : SetApiKey(k)
    \/ \E f \in Sources \cup {None} : Upload(f)
    \/ RemakeClick
    \/ DescribeReturns
    \/ RenderReturns
    \/ RefineClick
    \/ CompareReturns
    \/ RefineRenderReturns

Spec == Init /\ [][Next]_vars

\* The script runs every handler to its end once each model call returns.
Progress ==
    /\ WF_vars(DescribeReturns)
    /\ WF_vars(RenderReturns)
    /\ WF_vars(CompareReturns)
    /\ WF_vars(RefineRenderReturns)
FairSpec == Spec /\ Progress

TypeOK ==
    /\ api_key \in ApiKeys
    /\ uploaded_file \in Sources \cup {None}
    /\ pc \in {"idle", "analyzing", "generating", "refining", "regenerating"}
    /\ nrender \in 0..MaxRenders
    /\ Len(refined_images) <= MaxRenders

-----------------------------------------------------------------------------
(* Outcomes of a run, as the script reports them *)

RemakeSucceeded ==
    pc = "idle" /\ action = "remake" /\ status = "Remake Complete!"
RemakeFailed ==
    /\ pc = "idle" /\ action = "remake"
    /\ status \in {"Analysis Failed", "Generation Failed"}
RefineSucceeded ==
    pc = "idle" /\ action = "refine" /\ status = "Refinement Complete!"
RefineFailed ==
    /\ pc = "idle" /\ action = "refine"
    /\ status \in {"Refinement Failed", "Generation Failed", "AttributeError"}
Failed ==
    /\ pc = "idle"
    /\ status \in {"Analysis Failed", "Generation Failed",
                   "Refinement Failed", "AttributeError", KeyMissingMessage}

IsPrefix(s, t) == Len(s) <= Len(t) /\ SubSeq(t, 1, Len(s)) = s

-----------------------------------------------------------------------------
(* Properties *)

\* C1: after every successful remake the Attempt history has exactly one
\* element, whatever number of attempts it held before.
C1_RemakeResetsHistory == RemakeSucceeded => Len(History) = 1
C1_Witness == RemakeSucceeded /\ Len(BeforeHistory) = 2 /\ Len(History) = 1

\* C2: when a remake fails, in analyze or in generate, the Attempt history
\* is the same, in length and content, as when the remake was triggered.
C2_FailedRemakeKeepsHistory == RemakeFailed => History = BeforeHistory

\* C3: when a refine fails, in compare or in the following generate, no
\* attempt is appended and the history is the same as when it was triggered.
C3_FailedRefineKeepsHistory == RefineFailed => History = BeforeHistory
C3_Witness ==
    /\ RefineFailed /\ status = "Generation Failed"
    /\ Len(BeforeHistory) = 2 /\ History = BeforeHistory

\* C4: a successful refine makes the history one longer; the history before
\* it is a prefix of the history after it.
C4_RefineAppendsOne ==
    RefineSucceeded =>
        /\ Len(History) = Len(BeforeHistory) + 1
        /\ IsPrefix(BeforeHistory, History)
C4_Witness ==
    /\ RefineSucceeded /\ Len(BeforeHistory) = 2 /\ Len(History) = 3
    /\ IsPrefix(BeforeHistory, History)

\* C5: every compare request carries the image and the description of the
\* last element of the history at the moment refine was triggered.
C5_CompareUsesLastAttempt ==
    \A i \in DOMAIN calls :
        calls[i].op = "compare" =>
            /\ BeforeHistory # <<>>
            /\ calls[i].img = Last(BeforeHistory)[1]
            /\ calls[i].desc = Last(BeforeHistory)[2]
C5_Witness ==
    /\ pc = "refining" /\ Len(BeforeHistory) = 3
    /\ calls[1].op = "compare"
    /\ calls[1].img = BeforeHistory[3][1]
    /\ calls[1].img # BeforeHistory[2][1]

\* C6: between actions, each attempt of the history pairs an image with the
\* description that image was rendered from, and so every compare request
\* carries the description that produced the image it carries.
C6_AttemptsPairImageWithItsDescription ==
    /\ pc = "idle" =>
           \A i \in DOMAIN History : History[i][1].from = History[i][2]
    /\ \A i \in DOMAIN calls :
           calls[i].op = "compare" => calls[i].img.from = calls[i].desc

\* C7: a compare response without the revised description is a failure: no
\* render is requested from a missing description and no attempt of the
\* history has a missing description.
C7_NoMissingDescription ==
    /\ \A i \in DOMAIN calls :
           calls[i].op = "render" => calls[i].desc # None
    /\ \A i \in DOMAIN History : History[i][2] # None
    /\ action = "refine" /\ TruthyResult(refinement_result)
           /\ refinement_result.t = "obj" /\ ~refinement_result.has_np
       => pc = "idle" /\ status \notin {"Refinement Complete!"}

\* C8: with the credential absent, a triggered remake or refine issues no
\* request to the model, reports the error and leaves the session state
\* (history and stored description) as it was.
C8_NoKeyBlocksBeforeAnyCall ==
    /\ \A i \in DOMAIN calls : calls[i].key # ""
    /\ action \in {"remake", "refine"} /\ api_key = ""
       => /\ pc = "idle"
          /\ status = KeyMissingMessage
          /\ calls = <<>>
          /\ session = before
C8_Witness ==
    /\ action = "refine" /\ api_key = "" /\ status = KeyMissingMessage
    /\ Len(History) = 2 /\ calls = <<>>

\* C9: after an action ends in failure, remake is available, and refine is
\* available exactly when the history is non-empty; a remake from an empty
\* history whose render returns no image leaves the history empty and
\* refine unavailable.
C9_ActionableAfterFailure ==
    Failed =>
        /\ RemakeAvailable
        /\ RefineAvailable <=> History # <<>>
        /\ action = "remake" /\ BeforeHistory = <<>>
             /\ status = "Generation Failed"
           => History = <<>> /\ ~RefineAvailable
C9_Witness ==
    /\ Failed /\ action = "remake" /\ status = "Generation Failed"
    /\ BeforeHistory = <<>> /\ prompt_json \in Descriptions
    /\ History = <<>> /\ ~RefineAvailable /\ RemakeAvailable

\* C10: after a successful refine the appended attempt holds the revised
\* description compare returned, the image rendered from it, and the change
\* list compare returned (empty when it returned none).
C10_RefineStoresCompareResult ==
    RefineSucceeded =>
        /\ Last(History)[1] = rendered
        /\ rendered.from = Last(History)[2]
        /\ refinement_result.has_np => Last(History)[2] = refinement_result.np
        /\ refinement_result.has_ch => Last(History)[3] = refinement_result.ch
        /\ ~refinement_result.has_ch => Last(History)[3] = <<>>
C10_Witness ==
    /\ RefineSucceeded /\ Len(BeforeHistory) = 1
    /\ refinement_result.has_np /\ refinement_result.has_ch
    /\ Len(History) = 2
    /\ History[2] = <<rendered, refinement_result.np, <<"fixed angle">>>>

\* C11: after a successful remake the single attempt of the history holds
\* the description describe returned, the image render returned for that
\* description, and an empty change list.
C11_RemakeStoresDescribeResult ==
    RemakeSucceeded =>
        /\ History = <<(<<rendered, prompt_json, <<>>>>)>>
        /\ rendered.from = prompt_json
        /\ calls[2].op = "render" /\ calls[2].desc = prompt_json
C11_Witness ==
    /\ RemakeSucceeded /\ prompt_json = "D2" /\ before[2] = "D1"
    /\ History = <<(<<rendered, "D2", <<>>>>)>>

\* The mappings among the values describe can return.
Mappings == Descriptions \cup {"EMPTY"}

\* C12: a remake whose describe call returns any JSON mapping proceeds to
\* generation with it: it is not failed for the description's shape and a
\* render request carrying it is issued.
C12_AnyMappingIsRendered ==
    action = "remake" /\ pc # "analyzing" /\ prompt_json \in Mappings
        => /\ status # "Analysis Failed"
           /\ Len(calls) = 2
           /\ calls[2].op = "render" /\ calls[2].desc = prompt_json

\* The value the first call of this run returned, if it has returned.
StepReturned ==
    \/ action = "remake" /\ prompt_json # None
    \/ action = "refine" /\ refinement_result # JsonNull

\* C13: within an action, a render request is issued only after the
\* action's describe / compare call returned a result, and never when that
\* call failed.
C13_RenderOnlyAfterStepSucceeded ==
    /\ \A i \in DOMAIN calls :
           calls[i].op = "render" =>
               /\ i > 1
               /\ calls[i - 1].op = (IF action = "remake" THEN "describe"
                                     ELSE "compare")
               /\ StepReturned
    /\ pc \in {"analyzing", "refining"} => Len(calls) = 1
    /\ pc = "idle" /\ action \in {"remake", "refine"} /\ ~StepReturned
       => \A i \in DOMAIN calls : calls[i].op # "render"
C13_Witness ==
    /\ pc = "regenerating" /\ refinement_result.has_np
    /\ Len(calls) = 2 /\ calls[1].op = "compare" /\ calls[2].op = "render"

\* Number of requests of one kind this run has issued.
Count(op) == Cardinality({i \in DOMAIN calls : calls[i].op = op})

\* C14: no step is retried: a remake issues at most one describe and one
\* render request, a refine at most one compare and one render request,
\* whatever the calls return.
C14_NoAutomaticRetry ==
    /\ Count("describe") <= 1 /\ Count("compare") <= 1 /\ Count("render") <= 1
    /\ action = "remake" => Count("compare") = 0
    /\ action = "refine" => Count("describe") = 0
    /\ action = "none" => calls = <<>>
C14_Witness ==
    /\ pc = "idle" /\ action = "refine" /\ status = "Generation Failed"
    /\ Count("compare") = 1 /\ Count("render") = 1

\* C15: every render request is text-to-image: it carries the description
\* and no image, in particular not the image the refine compared.
C15_RenderCarriesNoImage ==
    \A i \in DOMAIN calls :
        calls[i].op = "render" =>
            /\ calls[i].ref = NoImage
            /\ calls[i].img = NoImage
            /\ calls[i].src = None
C15_Witness ==
    /\ pc = "regenerating" /\ TruthyImage(current_gen_img)
    /\ calls[2].op = "render" /\ calls[2].ref = NoImage
    /\ calls[2].desc = new_prompt

\* What a remake that passed the credential check leaves behind, from the
\* session state at the click and the results of its two model calls.
RemakeOutcome(b, described, image_made) ==
    IF ~TruthyJson(described) THEN <<b, "Analysis Failed">>
    ELSE IF ~TruthyImage(image_made)
         THEN <<(<<b[1], described, b[3]>>), "Generation Failed">>
         ELSE <<(<<image_made, described, <<>>>>), "Remake Complete!">>

\* C16: a missing schema template is no failure: describe is still called,
\* with the fallback instruction, and the remake's result is decided by the
\* results of the model calls alone, as when the file is present.
C16_MissingTemplateIsNotFatal ==
    action = "remake" /\ client # None =>
        /\ calls[1].op = "describe"
        /\ calls[1].text = (IF example_file THEN "prompt_example.txt"
                            ELSE "fallback")
        /\ pc = "idle" =>
               <<session, status>> = RemakeOutcome(before, prompt_json, rendered)
C16_Witness ==
    /\ pc = "idle" /\ action = "remake" /\ ~example_file
    /\ calls[1].text = "fallback" /\ status = "Remake Complete!"

\* C17: every triggered remake or refine finishes, provided each model call
\* it issues returns: the script does not stay in analyzing, refining or
\* generating, and ends idle where a further remake can be triggered.
C17_EveryActionFinishes == (pc # "idle") ~> (pc = "idle" /\ RemakeAvailable)
C17_Witness ==
    /\ pc = "idle" /\ RemakeAvailable /\ action = "refine"
    /\ status = "AttributeError" /\ Len(calls) = 1

\* C18: the source image a refine passes to compare is the source image the
\* history's initial attempt was made for; after a new upload no attempt
\* made for the previous source is a refine baseline.
C18_CompareUsesSourceOfHistory ==
    \A i \in DOMAIN calls :
        calls[i].op = "compare" => calls[i].src = remade_from

\* C19: refinements exist only with the initial attempt (generated_image
\* and current_prompt set); a refine is triggered only on a non-empty
\* history and never sends compare a missing generated image.
C19_RefinementsImplyInitialAttempt ==
    /\ refined_images # <<>> =>
           TruthyImage(generated_image) /\ current_prompt # None
    /\ pc \in {"refining", "regenerating"} => BeforeHistory # <<>>
    /\ \A i \in DOMAIN calls :
           calls[i].op = "compare" => TruthyImage(calls[i].img)
C19_Witness ==
    /\ pc = "refining" /\ Len(refined_images) = 1
    /\ TruthyImage(generated_image) /\ current_prompt # None
    /\ calls[1].op = "compare" /\ calls[1].img = refined_images[1][1]

====
